---- MODULE Spec2Model ----
(***************************************************************************)
(* The users table of db.py, a SQLite database reached through aiosqlite,  *)
(* and the coroutines that read and write it.  Every coroutine opens its   *)
(* own connection; a connection's statements are the atomic steps, and the *)
(* steps of different callers interleave freely.                           *)
(*                                                                         *)
(* SQLite, as the sqlite3 module drives it: a SELECT outside a transaction *)
(* reads the committed table; the first INSERT or UPDATE of a connection   *)
(* begins a transaction and takes the database's single write lock, a      *)
(* second writer waits for it (busy handler); the write is seen by others  *)
(* only at commit; closing a connection rolls an open transaction back.    *)
(***************************************************************************)
EXTENDS Integers, Sequences, FiniteSets, TLC

\* ---- bounds of the model ----
\* The calls made in one behaviour, the user ids and keys they name, and the
\* callers that make them concurrently.
MaxCalls == 3
Ids == {0, 1}
Procs == {1, 2}
Keys == {"", "K1", "K2"}

\* ---- db.py:7-11 ----
DEFAULT_FREE_CREDITS == 200
DEFAULT_PLAN == "Free"
DEFAULT_STATUS == "Free"
DEFAULT_PLAN_EXPIRY == "N/A"
DEFAULT_KEYS_REDEEMED == 0

\* ---- Python and SQL values ----
\* An optional value (None / SQL NULL, or one value) is a sequence of length <= 1.
None == <<>>
Some(x) == <<x>>
IsNone(o) == o = <<>>
The(o) == o[1]

\* A Python string is the sequence of its lexemes; JSON text is such a string.
\* A Python value handed to or produced by the json module:
PyNone == [t |-> "none", v |-> <<>>]
PyStr(s) == [t |-> "str", v |-> s]
PyList(l) == [t |-> "list", v |-> l]

\* Python truthiness (the "if x" and "not x" tests of the code).
TruthyStr(s) == s # ""
TruthyInt(n) == n # 0

Range(s) == {s[i] : i \in 1..Len(s)}

\* ---- the json module, on the values custom_urls takes ----
Strs == {"a", "b"}
Quote(s) == "\"" \o s \o "\""
IsQuoted(tok) == \E s \in Strs : Quote(s) = tok
Unquote(tok) == CHOOSE s \in Strs : Quote(s) = tok

RECURSIVE JoinQuoted(_)
JoinQuoted(l) ==
    IF l = <<>> THEN <<>>
    ELSE IF Len(l) = 1 THEN <<Quote(l[1])>>
    ELSE <<Quote(l[1]), ",">> \o JoinQuoted(Tail(l))

\* json.dumps(v), db.py:90 and db.py:68
json_dumps(v) ==
    IF v.t = "none" THEN <<"null">>
    ELSE IF v.t = "str" THEN <<Quote(v.v[1])>>
    ELSE <<"[">> \o JoinQuoted(v.v) \o <<"]">>

\* The items of a JSON array body: quoted strings separated by commas.
IsItems(body) ==
    /\ Len(body) % 2 = 1
    /\ \A i \in 1..Len(body) :
          IF i % 2 = 1 THEN IsQuoted(body[i]) ELSE body[i] = ","
Items(body) == [i \in 1..((Len(body) + 1) \div 2) |-> Unquote(body[2 * i - 1])]

\* json.loads(text), db.py:40: ok is FALSE where it raises.
json_loads(text) ==
    IF text = <<"null">> THEN [ok |-> TRUE, val |-> PyNone]
    ELSE IF Len(text) = 1 /\ IsQuoted(text[1])
        THEN [ok |-> TRUE, val |-> PyStr(<<Unquote(text[1])>>)]
    ELSE IF Len(text) >= 2 /\ text[1] = "[" /\ text[Len(text)] = "]"
        THEN LET body == SubSeq(text, 2, Len(text) - 1) IN
             IF body = <<>> THEN [ok |-> TRUE, val |-> PyList(<<>>)]
             ELSE IF IsItems(body) THEN [ok |-> TRUE, val |-> PyList(Items(body))]
             ELSE [ok |-> FALSE, val |-> PyNone]
    ELSE [ok |-> FALSE, val |-> PyNone]

\* db.py:35-45
normalize_json_field(value) ==
    IF value.t = "none" THEN PyList(<<>>)
    ELSE IF value.t = "str"
        THEN LET r == json_loads(value.v) IN
             IF r.ok THEN r.val ELSE PyList(<<>>)
    ELSE IF value.t = "list" THEN value
    ELSE PyList(<<>>)

\* ---- the clock: datetime.now().strftime('%d-%m-%Y'), db.py:59 and db.py:133 ----
\* Day 0 of the model is 30 November 2026; a call may run on any of the days.
Days == {0, 1}
Pad2(n) == IF n < 10 THEN "0" \o ToString(n) ELSE ToString(n)
DayOf(n) == IF n = 0 THEN 30 ELSE n
MonthOf(n) == IF n = 0 THEN 11 ELSE 12
strftime(n) == Pad2(DayOf(n)) \o "-" \o Pad2(MonthOf(n)) \o "-" \o ToString(2026)

\* ---- the users table, db.py:20-30 ----
NoRow == [id |-> -1]
Exists(r) == r # NoRow

\* NewRow by an INSERT whose status and plan_expiry arguments are swapped.
NewRow_Swapped(user_id, now, serp_key) ==
    [id |-> user_id,
     credits |-> DEFAULT_FREE_CREDITS,
     plan |-> DEFAULT_PLAN,
     status |-> DEFAULT_PLAN_EXPIRY,
     plan_expiry |-> DEFAULT_STATUS,
     keys_redeemed |-> DEFAULT_KEYS_REDEEMED,
     registered_at |-> now,
     custom_urls |-> <<"[", "]">>,
     serp_key |-> serp_key]

\* NewRow by an INSERT that leaves the serp_key column out.
NewRow_NoKey(user_id, now, serp_key) ==
    [id |-> user_id,
     credits |-> DEFAULT_FREE_CREDITS,
     plan |-> DEFAULT_PLAN,
     status |-> DEFAULT_STATUS,
     plan_expiry |-> DEFAULT_PLAN_EXPIRY,
     keys_redeemed |-> DEFAULT_KEYS_REDEEMED,
     registered_at |-> now,
     custom_urls |-> <<"[", "]">>,
     serp_key |-> <<>>]

\* The row both INSERT statements write (db.py:62-68, db.py:136-142).
NewRow(user_id, now, serp_key) ==
    [id |-> user_id,
     credits |-> DEFAULT_FREE_CREDITS,
     plan |-> DEFAULT_PLAN,
     status |-> DEFAULT_STATUS,
     plan_expiry |-> DEFAULT_PLAN_EXPIRY,
     keys_redeemed |-> DEFAULT_KEYS_REDEEMED,
     registered_at |-> now,
     custom_urls |-> json_dumps(PyList(<<>>)),
     serp_key |-> serp_key]

\* serp_key of a row, NULL where there is no row.
KeyOf(r) == IF Exists(r) THEN r.serp_key ELSE None
\* The ids whose rows hold serp_key = k.
Holders(tbl, k) == {v \in Ids : KeyOf(tbl[v]) = Some(k)}
RowCount(tbl) == Cardinality({v \in Ids : Exists(tbl[v])})

\* ---- sqlite3.IntegrityError, by the constraint that failed ----
NoExc == <<>>
ErrUniqueId == <<"UNIQUE", "constraint", "failed:", "users.id">>
ErrUniqueKey == <<"UNIQUE", "constraint", "failed:", "users.serp_key">>

\* InsertError for a table whose serp_key column is not declared UNIQUE.
InsertError_IdOnly(tbl, row) ==
    IF Exists(tbl[row.id]) THEN ErrUniqueId ELSE NoExc

\* id INTEGER PRIMARY KEY (db.py:21) and serp_key TEXT UNIQUE (db.py:29), as an
\* INSERT of row into tbl meets them; NULLs never clash.
InsertError(tbl, row) ==
    IF Exists(tbl[row.id]) THEN ErrUniqueId
    ELSE IF row.serp_key # None /\ Holders(tbl, The(row.serp_key)) # {} THEN ErrUniqueKey
    ELSE NoExc

\* UpdateError by a constraint that counts the updated row's own key as taken.
UpdateError_OwnRow(tbl, user_id, row) ==
    IF row.serp_key # None /\ Holders(tbl, The(row.serp_key)) # {}
    THEN ErrUniqueKey
    ELSE NoExc

\* UpdateError for a table whose serp_key column is not declared UNIQUE.
UpdateError_NoCheck(tbl, user_id, row) == NoExc

\* serp_key TEXT UNIQUE (db.py:29), as an UPDATE of the row of user_id to row meets it.
UpdateError(tbl, user_id, row) ==
    IF row.serp_key # None /\ Holders(tbl, The(row.serp_key)) \ {user_id} # {}
    THEN ErrUniqueKey
    ELSE NoExc

\* str(e).lower() and the test "unique" in ..., db.py:150
Lower(tok) == IF tok = "UNIQUE" THEN "unique" ELSE tok
LowerStr(msg) == [i \in 1..Len(msg) |-> Lower(msg[i])]
\* MentionsUnique without the lower(): the message is searched as it is.
MentionsUnique_CaseSensitive(msg) == "unique" \in Range(msg)
MentionsUnique(msg) == "unique" \in Range(LowerStr(msg))

\* ---- update_user's **kwargs: one optional slot per column it may name ----
NoKwargs ==
    [credits |-> None, plan |-> None, custom_urls |-> None,
     serp_key |-> None, registered_at |-> None]
IsEmptyKwargs(kw) == kw = NoKwargs

\* The calls of update_user the model makes.
UpdateInputs ==
    { NoKwargs,
      [NoKwargs EXCEPT !.credits = Some(50)],
      [NoKwargs EXCEPT !.custom_urls = Some(PyNone)],
      [NoKwargs EXCEPT !.custom_urls = Some(PyList(<<"a", "b">>)), !.plan = Some("Pro")],
      [NoKwargs EXCEPT !.serp_key = Some(Some("K1"))],
      [NoKwargs EXCEPT !.registered_at = Some("01-01-2020")] }

\* ApplySet as a REPLACE would do it: the columns not named fall back to their defaults.
ApplySet_Replace(row, kw) ==
    LET base == NewRow(row.id, row.registered_at, row.serp_key) IN
    [base EXCEPT
       !.credits = IF IsNone(kw.credits) THEN @ ELSE The(kw.credits),
       !.plan = IF IsNone(kw.plan) THEN @ ELSE The(kw.plan),
       !.custom_urls = IF IsNone(kw.custom_urls) THEN @ ELSE json_dumps(The(kw.custom_urls)),
       !.serp_key = IF IsNone(kw.serp_key) THEN @ ELSE The(kw.serp_key),
       !.registered_at = IF IsNone(kw.registered_at) THEN @ ELSE The(kw.registered_at)]

\* The SET clause built at db.py:87-96, applied to one row.
ApplySet(row, kw) ==
    [row EXCEPT
       !.credits = IF IsNone(kw.credits) THEN @ ELSE The(kw.credits),
       !.plan = IF IsNone(kw.plan) THEN @ ELSE The(kw.plan),
       !.custom_urls = IF IsNone(kw.custom_urls) THEN @ ELSE json_dumps(The(kw.custom_urls)),
       !.serp_key = IF IsNone(kw.serp_key) THEN @ ELSE The(kw.serp_key),
       !.registered_at = IF IsNone(kw.registered_at) THEN @ ELSE The(kw.registered_at)]

\* UpdatedRow as an upsert would do it: a row with the defaults is made when none has the id.
UpdatedRow_Upsert(tbl, user_id, kw) ==
    IF Exists(tbl[user_id]) THEN ApplySet(tbl[user_id], kw)
    ELSE ApplySet(NewRow(user_id, strftime(0), None), kw)

\* UPDATE users SET ... WHERE id = ?, db.py:96-97: the row as the statement
\* leaves it, NoRow when no row has the id (the statement then changes nothing).
UpdatedRow(tbl, user_id, kw) ==
    IF Exists(tbl[user_id]) THEN ApplySet(tbl[user_id], kw) ELSE NoRow

\* Materialize by a dict(row) that keeps custom_urls as the stored text.
Materialize_Raw(row) ==
    [row EXCEPT !.custom_urls = PyStr(row.custom_urls)]

\* dict(row) with custom_urls normalized, db.py:55-56 and db.py:109-110
Materialize(row) ==
    [row EXCEPT !.custom_urls = normalize_json_field(PyStr(row.custom_urls))]

\* ---- state ----
\* table: the committed rows, by id.
\* lock:  the caller whose connection holds the write lock, 0 when it is free.
\* pc, call, found, pend, exc, ret: each caller's position, the call it makes,
\*        whether its SELECT found the row, the row its transaction has written but
\*        not committed, the exception it is handling, and what its call gave back.
\* calls: the number of calls made so far.
VARIABLES table, lock, pc, call, found, pend, exc, ret, calls

vars == <<table, lock, pc, call, found, pend, exc, ret, calls>>

NoCall == [op |-> "none", user_id |-> 0, serp_key |-> "", kwargs |-> NoKwargs, exclude_user |-> None]
NoRet == [kind |-> "none", flag |-> FALSE, row |-> NoRow, key |-> None, n |-> 0, list |-> <<>>, exc |-> NoExc]

Returned(r) == r.kind = "return"
Raised(r) == r.kind = "raise"
ReturnNone == [NoRet EXCEPT !.kind = "return"]
ReturnFlag(b) == [NoRet EXCEPT !.kind = "return", !.flag = b]
ReturnRow(r) == [NoRet EXCEPT !.kind = "return", !.row = r]
ReturnKey(k) == [NoRet EXCEPT !.kind = "return", !.key = k]
ReturnCount(n) == [NoRet EXCEPT !.kind = "return", !.n = n]
ReturnList(l) == [NoRet EXCEPT !.kind = "return", !.list = l]
Raise(e) == [NoRet EXCEPT !.kind = "raise", !.exc = e]

Init ==
    /\ table = [u \in Ids |-> NoRow]
    /\ lock = 0
    /\ pc = [p \in Procs |-> "idle"]
    /\ call = [p \in Procs |-> NoCall]
    /\ found = [p \in Procs |-> FALSE]
    /\ pend = [p \in Procs |-> NoRow]
    /\ exc = [p \in Procs |-> NoExc]
    /\ ret = [p \in Procs |-> NoRet]
    /\ calls = 0

\* A call c arrives and the first caller that is between calls makes it (callers
\* differ in nothing but their number).
Begin(p, c) ==
    /\ pc[p] = "idle"
    /\ \A q \in Procs : q < p => pc[q] # "idle"
    /\ calls < MaxCalls
    /\ calls' = calls + 1
    /\ call' = [call EXCEPT ![p] = c]

Goto(p, l) == pc' = [pc EXCEPT ![p] = l]
Ret(p, r) == ret' = [ret EXCEPT ![p] = r]
\* The call of p is over: its connection is closed and its locals are gone.
Drop(p) ==
    /\ found' = [found EXCEPT ![p] = FALSE]
    /\ pend' = [pend EXCEPT ![p] = NoRow]
    /\ exc' = [exc EXCEPT ![p] = NoExc]

\* ---- get_user, db.py:48-76 ----
\* db.py:49-57: the SELECT, and the return of the row it found.
get_user_select(p, user_id) ==
    /\ Begin(p, [NoCall EXCEPT !.op = "get_user", !.user_id = user_id])
    /\ LET row == table[user_id] IN
       IF Exists(row)
       THEN /\ Goto(p, "idle")
            /\ Ret(p, ReturnRow(Materialize(row)))
       ELSE /\ Goto(p, "gu_insert")
            /\ Ret(p, NoRet)
    /\ UNCHANGED <<table, lock, found, pend, exc>>

\* db.py:59-69: the INSERT; it begins the transaction and takes the write lock.
get_user_insert(p, today) ==
    /\ pc[p] = "gu_insert"
    /\ lock = 0
    /\ lock' = p
    /\ LET now == strftime(today)
           row == NewRow(call[p].user_id, now, None)
           e == InsertError(table, row)
       IN IF e = NoExc
          THEN /\ pend' = [pend EXCEPT ![p] = row]
               /\ Goto(p, "gu_commit")
               /\ UNCHANGED exc
          ELSE /\ exc' = [exc EXCEPT ![p] = e]
               /\ Goto(p, "gu_raise")
               /\ UNCHANGED pend
    /\ UNCHANGED <<table, call, found, ret, calls>>

\* db.py:70: the commit.
get_user_commit(p) ==
    /\ pc[p] = "gu_commit"
    /\ table' = [table EXCEPT ![call[p].user_id] = pend[p]]
    /\ lock' = 0
    /\ pend' = [pend EXCEPT ![p] = NoRow]
    /\ Goto(p, "gu_reselect")
    /\ UNCHANGED <<call, found, exc, ret, calls>>

\* db.py:72-76: the second SELECT, and the return of the new row.
get_user_reselect(p) ==
    /\ pc[p] = "gu_reselect"
    /\ LET row == table[call[p].user_id] IN
       Ret(p, ReturnRow([row EXCEPT !.custom_urls = PyList(<<>>)]))
    /\ Goto(p, "idle")
    /\ Drop(p)
    /\ UNCHANGED <<table, lock, call, calls>>

\* db.py:49: the INSERT raised; leaving the connection's block rolls back and
\* the exception reaches the caller.
get_user_raise(p) ==
    /\ pc[p] = "gu_raise"
    /\ lock' = 0
    /\ Ret(p, Raise(exc[p]))
    /\ Goto(p, "idle")
    /\ Drop(p)
    /\ UNCHANGED <<table, call, calls>>

\* ---- update_user, db.py:79-98 ----
\* db.py:80-97: the early return on no fields, or the UPDATE, which begins the
\* transaction and takes the write lock; it changes no row when none has the id.
update_user_execute(p, user_id, kwargs) ==
    /\ Begin(p, [NoCall EXCEPT !.op = "update_user", !.user_id = user_id, !.kwargs = kwargs])
    /\ IF IsEmptyKwargs(kwargs)
       THEN /\ Goto(p, "idle")
            /\ Ret(p, ReturnNone)
            /\ UNCHANGED <<lock, pend, exc>>
       ELSE /\ lock = 0
            /\ lock' = p
            /\ Ret(p, NoRet)
            /\ LET new == UpdatedRow(table, user_id, kwargs)
                   e == IF Exists(new) THEN UpdateError(table, user_id, new) ELSE NoExc
               IN IF e = NoExc
                  THEN /\ pend' = [pend EXCEPT ![p] = new]
                       /\ Goto(p, "uu_commit")
                       /\ UNCHANGED exc
                  ELSE /\ exc' = [exc EXCEPT ![p] = e]
                       /\ Goto(p, "uu_raise")
                       /\ UNCHANGED pend
    /\ UNCHANGED <<table, found>>

\* db.py:98: the commit, and the return.
update_user_commit(p) ==
    /\ pc[p] = "uu_commit"
    /\ table' = IF Exists(pend[p]) THEN [table EXCEPT ![call[p].user_id] = pend[p]] ELSE table
    /\ lock' = 0
    /\ Ret(p, ReturnNone)
    /\ Goto(p, "idle")
    /\ Drop(p)
    /\ UNCHANGED <<call, calls>>

\* db.py:83: the UPDATE raised; leaving the connection's block rolls back and
\* the exception reaches the caller.
update_user_raise(p) ==
    /\ pc[p] = "uu_raise"
    /\ lock' = 0
    /\ Ret(p, Raise(exc[p]))
    /\ Goto(p, "idle")
    /\ Drop(p)
    /\ UNCHANGED <<table, call, calls>>

\* ---- set_serp_key, db.py:122-152 ----
\* db.py:127-130: the SELECT that looks for the user's row.
set_serp_key_select(p, user_id, serp_key) ==
    /\ Begin(p, [NoCall EXCEPT !.op = "set_serp_key", !.user_id = user_id, !.serp_key = serp_key])
    /\ found' = [found EXCEPT ![p] = Exists(table[user_id])]
    /\ Goto(p, "ssk_write")
    /\ Ret(p, NoRet)
    /\ UNCHANGED <<table, lock, pend, exc>>

\* db.py:132-145: the INSERT of a new row with the key, or the UPDATE of the key
\* of the row found; either begins the transaction and takes the write lock.
set_serp_key_write(p, today) ==
    /\ pc[p] = "ssk_write"
    /\ lock = 0
    /\ lock' = p
    /\ LET user_id == call[p].user_id
           key == Some(call[p].serp_key)
           now == strftime(today)
           row == IF ~found[p] THEN NewRow(user_id, now, key)
                  ELSE [table[user_id] EXCEPT !.serp_key = key]
           e == IF ~found[p] THEN InsertError(table, row)
                ELSE UpdateError(table, user_id, row)
       IN IF e = NoExc
          THEN /\ pend' = [pend EXCEPT ![p] = row]
               /\ Goto(p, "ssk_commit")
               /\ UNCHANGED exc
          ELSE /\ exc' = [exc EXCEPT ![p] = e]
               /\ Goto(p, "ssk_except")
               /\ UNCHANGED pend
    /\ UNCHANGED <<table, call, found, ret, calls>>

\* db.py:147-148: the commit, and the return of True.
set_serp_key_commit(p) ==
    /\ pc[p] = "ssk_commit"
    /\ table' = [table EXCEPT ![call[p].user_id] = pend[p]]
    /\ lock' = 0
    /\ Ret(p, ReturnFlag(TRUE))
    /\ Goto(p, "idle")
    /\ Drop(p)
    /\ UNCHANGED <<call, calls>>

\* set_serp_key_except by a handler that returns while its connection, and the
\* write lock with it, stays open.
set_serp_key_except_NoRollback(p) ==
    /\ pc[p] = "ssk_except"
    /\ Ret(p, IF MentionsUnique(exc[p]) THEN ReturnFlag(FALSE) ELSE Raise(exc[p]))
    /\ Goto(p, "idle")
    /\ Drop(p)
    /\ UNCHANGED <<table, lock, call, calls>>

\* db.py:149-152: the except clause: False for a message that mentions "unique",
\* the exception again for any other; the connection closes and rolls back.
set_serp_key_except(p) ==
    /\ pc[p] = "ssk_except"
    /\ lock' = 0
    /\ Ret(p, IF MentionsUnique(exc[p]) THEN ReturnFlag(FALSE) ELSE Raise(exc[p]))
    /\ Goto(p, "idle")
    /\ Drop(p)
    /\ UNCHANGED <<table, call, calls>>

\* ---- get_serp_key, db.py:154-159 ----
get_serp_key_result(tbl, user_id) ==
    LET row == tbl[user_id] IN
    IF Exists(row) /\ row.serp_key # None /\ TruthyStr(The(row.serp_key))
    THEN row.serp_key ELSE None

get_serp_key(p, user_id) ==
    /\ Begin(p, [NoCall EXCEPT !.op = "get_serp_key", !.user_id = user_id])
    /\ Ret(p, ReturnKey(get_serp_key_result(table, user_id)))
    /\ UNCHANGED <<table, lock, pc, found, pend, exc>>

\* ---- delete_serp_key, db.py:161-176 ----
\* db.py:166-172: the SELECT, and the return of False when there is no key.
delete_serp_key_select(p, user_id) ==
    /\ Begin(p, [NoCall EXCEPT !.op = "delete_serp_key", !.user_id = user_id])
    /\ LET row == table[user_id] IN
       IF ~Exists(row) \/ row.serp_key = None \/ ~TruthyStr(The(row.serp_key))
       THEN /\ Goto(p, "idle")
            /\ Ret(p, ReturnFlag(FALSE))
       ELSE /\ Goto(p, "dsk_update")
            /\ Ret(p, NoRet)
    /\ UNCHANGED <<table, lock, found, pend, exc>>

\* delete_serp_key_update by an UPDATE that leaves the key in place.
delete_serp_key_update_KeepKey(p) ==
    /\ pc[p] = "dsk_update"
    /\ lock = 0
    /\ lock' = p
    /\ pend' = [pend EXCEPT ![p] = table[call[p].user_id]]
    /\ Goto(p, "dsk_commit")
    /\ UNCHANGED <<table, call, found, exc, ret, calls>>

\* db.py:174: the UPDATE that sets the key to NULL; it takes the write lock.
delete_serp_key_update(p) ==
    /\ pc[p] = "dsk_update"
    /\ lock = 0
    /\ lock' = p
    /\ pend' = [pend EXCEPT ![p] = [table[call[p].user_id] EXCEPT !.serp_key = None]]
    /\ Goto(p, "dsk_commit")
    /\ UNCHANGED <<table, call, found, exc, ret, calls>>

\* db.py:175-176: the commit, and the return of True.
delete_serp_key_commit(p) ==
    /\ pc[p] = "dsk_commit"
    /\ table' = [table EXCEPT ![call[p].user_id] = pend[p]]
    /\ lock' = 0
    /\ Ret(p, ReturnFlag(TRUE))
    /\ Goto(p, "idle")
    /\ Drop(p)
    /\ UNCHANGED <<call, calls>>

\* ---- serp_key_exists, db.py:181-193 ----
\* serp_key_exists_result by a SELECT without its WHERE serp_key = ? clause.
serp_key_exists_result_AnyKey(tbl, serp_key, exclude_user) ==
    \E v \in Ids : KeyOf(tbl[v]) # None

\* exclude_user is None or an id; "if exclude_user" is Python's truth test.
serp_key_exists_result(tbl, serp_key, exclude_user) ==
    LET rows == IF exclude_user # None /\ TruthyInt(The(exclude_user))
                THEN Holders(tbl, serp_key) \ {The(exclude_user)}
                ELSE Holders(tbl, serp_key)
    IN rows # {}

serp_key_exists(p, serp_key, exclude_user) ==
    /\ Begin(p, [NoCall EXCEPT !.op = "serp_key_exists", !.serp_key = serp_key,
                               !.exclude_user = exclude_user])
    /\ Ret(p, ReturnFlag(serp_key_exists_result(table, serp_key, exclude_user)))
    /\ UNCHANGED <<table, lock, pc, found, pend, exc>>

\* ---- get_all_users, db.py:101-112, and get_user_count, db.py:115-119 ----
RECURSIVE RowsOf(_, _)
\* The rows of tbl with an id in ids, in id order (the order of the primary key).
RowsOf(tbl, ids) ==
    IF ids = {} THEN <<>>
    ELSE LET u == CHOOSE x \in ids : \A y \in ids : x <= y IN
         (IF Exists(tbl[u]) THEN <<tbl[u]>> ELSE <<>>) \o RowsOf(tbl, ids \ {u})

Summary(row) ==
    [id |-> row.id, plan |-> row.plan,
     custom_urls |-> normalize_json_field(PyStr(row.custom_urls)),
     serp_key |-> row.serp_key]

get_all_users_result(tbl) ==
    LET rows == RowsOf(tbl, Ids) IN [i \in 1..Len(rows) |-> Summary(rows[i])]

get_all_users(p) ==
    /\ Begin(p, [NoCall EXCEPT !.op = "get_all_users"])
    /\ Ret(p, ReturnList(get_all_users_result(table)))
    /\ UNCHANGED <<table, lock, pc, found, pend, exc>>

\* get_user_count_result by SELECT COUNT(serp_key), which skips NULLs.
get_user_count_result_CountKeys(tbl) ==
    Cardinality({v \in Ids : KeyOf(tbl[v]) # None})

get_user_count_result(tbl) == Len(RowsOf(tbl, Ids))

get_user_count(p) ==
    /\ Begin(p, [NoCall EXCEPT !.op = "get_user_count"])
    /\ Ret(p, ReturnCount(get_user_count_result(table)))
    /\ UNCHANGED <<table, lock, pc, found, pend, exc>>

Excludes == {None} \cup {Some(u) : u \in Ids}

Next ==
    \/ \E p \in Procs, u \in Ids : get_user_select(p, u)
    \/ \E p \in Procs, d \in Days : get_user_insert(p, d)
    \/ \E p \in Procs : get_user_commit(p)
    \/ \E p \in Procs : get_user_reselect(p)
    \/ \E p \in Procs : get_user_raise(p)
    \/ \E p \in Procs, u \in Ids, kw \in UpdateInputs : update_user_execute(p, u, kw)
    \/ \E p \in Procs : update_user_commit(p)
    \/ \E p \in Procs : update_user_raise(p)
    \/ \E p \in Procs, u \in Ids, k \in Keys : set_serp_key_select(p, u, k)
    \/ \E p \in Procs, d \in Days : set_serp_key_write(p, d)
    \/ \E p \in Procs : set_serp_key_commit(p)
    \/ \E p \in Procs : set_serp_key_except(p)
    \/ \E p \in Procs, u \in Ids : get_serp_key(p, u)
    \/ \E p \in Procs, u \in Ids : delete_serp_key_select(p, u)
    \/ \E p \in Procs : delete_serp_key_update(p)
    \/ \E p \in Procs : delete_serp_key_commit(p)
    \/ \E p \in Procs, k \in Keys, x \in Excludes : serp_key_exists(p, k, x)
    \/ \E p \in Procs : get_all_users(p)
    \/ \E p \in Procs : get_user_count(p)

Spec == Init /\ [][Next]_vars

\* ---- racing set_serp_key calls ----
\* The tables a race may start from: each id has no row, or the row a first access
\* made for it, with or without a key; no key is held twice.
RaceRows(u) ==
    {NoRow} \cup {NewRow(u, strftime(0), k) : k \in {None} \cup {Some(x) : x \in Keys}}
RaceTables ==
    {t \in [Ids -> UNION {RaceRows(u) : u \in Ids}] :
        /\ \A u \in Ids : t[u] \in RaceRows(u)
        /\ \A k \in Keys : Cardinality(Holders(t, k)) <= 1}

InitRace ==
    /\ table \in RaceTables
    /\ lock = 0
    /\ pc = [p \in Procs |-> "idle"]
    /\ call = [p \in Procs |-> NoCall]
    /\ found = [p \in Procs |-> FALSE]
    /\ pend = [p \in Procs |-> NoRow]
    /\ exc = [p \in Procs |-> NoExc]
    /\ ret = [p \in Procs |-> NoRet]
    /\ calls = 0

Racers == {p \in Procs : call[p] # NoCall}

\* A caller joins the race: it has made no call yet, the others that have are still
\* running or done with a call for the same key and another user, and the first
\* one to arrive finds the key held by no one.
RaceBegin(p, user_id, serp_key) ==
    /\ call[p] = NoCall
    /\ Racers = {} => Holders(table, serp_key) = {}
    /\ \A q \in Racers : call[q].serp_key = serp_key /\ call[q].user_id # user_id
    /\ set_serp_key_select(p, user_id, serp_key)

NextRace ==
    \/ \E p \in Procs, u \in Ids, k \in Keys : RaceBegin(p, u, k)
    \/ \E p \in Procs, d \in Days : set_serp_key_write(p, d)
    \/ \E p \in Procs : set_serp_key_commit(p)
    \/ \E p \in Procs : set_serp_key_except(p)

SpecRace == InitRace /\ [][NextRace]_vars

\* ---- calls made one after the other ----
\* A call is made only when no other is running; the steps are those of Next
\* that such a behaviour takes (an INSERT of get_user never fails in it).
AllIdle == \A p \in Procs : pc[p] = "idle"

NextSeq ==
    \/ \E p \in Procs, u \in Ids : AllIdle /\ get_user_select(p, u)
    \/ \E p \in Procs, d \in Days : get_user_insert(p, d)
    \/ \E p \in Procs : get_user_commit(p)
    \/ \E p \in Procs : get_user_reselect(p)
    \/ \E p \in Procs, u \in Ids, kw \in UpdateInputs : AllIdle /\ update_user_execute(p, u, kw)
    \/ \E p \in Procs : update_user_commit(p)
    \/ \E p \in Procs : update_user_raise(p)
    \/ \E p \in Procs, u \in Ids, k \in Keys : AllIdle /\ set_serp_key_select(p, u, k)
    \/ \E p \in Procs, d \in Days : set_serp_key_write(p, d)
    \/ \E p \in Procs : set_serp_key_commit(p)
    \/ \E p \in Procs : set_serp_key_except(p)
    \/ \E p \in Procs, u \in Ids : AllIdle /\ get_serp_key(p, u)
    \/ \E p \in Procs, u \in Ids : AllIdle /\ delete_serp_key_select(p, u)
    \/ \E p \in Procs : delete_serp_key_update(p)
    \/ \E p \in Procs : delete_serp_key_commit(p)
    \/ \E p \in Procs, k \in Keys, x \in Excludes : AllIdle /\ serp_key_exists(p, k, x)
    \/ \E p \in Procs : AllIdle /\ get_all_users(p)
    \/ \E p \in Procs : AllIdle /\ get_user_count(p)

SpecSeq == Init /\ [][NextSeq]_vars

\* ---- fair scheduling ----
\* The steps of a call caller p has started: each runs on p's own connection
\* and is taken once the event loop gives p its turn (a write, once the write
\* lock is free).
Step(p) ==
    \/ \E d \in Days : get_user_insert(p, d)
    \/ get_user_commit(p)
    \/ get_user_reselect(p)
    \/ get_user_raise(p)
    \/ update_user_commit(p)
    \/ update_user_raise(p)
    \/ \E d \in Days : set_serp_key_write(p, d)
    \/ set_serp_key_commit(p)
    \/ set_serp_key_except(p)
    \/ delete_serp_key_update(p)
    \/ delete_serp_key_commit(p)

SpecFair == Spec /\ \A p \in Procs : WF_vars(Step(p))

\* ---- properties ----
Idle(p) == pc[p] = "idle"
\* p has finished a call of op (and made none since).
Done(p, op) == Idle(p) /\ call[p].op = op /\ ret[p].kind # "none"
\* p takes the step that starts a call of op (the lowest idle caller takes it).
Starts(p, op) ==
    /\ calls' = calls + 1
    /\ Idle(p)
    /\ \A q \in Procs : q < p => ~Idle(q)
    /\ call'[p].op = op
\* p takes the step that ends its call of op.
Ends(p, op) == call[p].op = op /\ ~Idle(p) /\ pc'[p] = "idle"

\* C1: no two rows with different ids hold the same serp_key, whatever calls of
\* get_user, update_user, set_serp_key and delete_serp_key were made and however
\* they interleaved.
C1_KeyUnique ==
    \A u \in Ids, v \in Ids :
        (u # v /\ KeyOf(table[u]) # None) => KeyOf(table[u]) # KeyOf(table[v])

C1_Witness ==
    \E u \in Ids, v \in Ids :
        /\ u # v
        /\ KeyOf(table[u]) # None
        /\ KeyOf(table[v]) # None
        /\ \E p \in Procs : Done(p, "update_user") /\ call[p].kwargs.serp_key # None

\* C2: when set_serp_key(B, K) writes while another user holds K, the write fails
\* on the constraint, the call returns False and the table stays as it was: the
\* holder keeps K, B's row keeps its key, and no row is made for B.
C2_ClashReturnsFalse ==
    [][\A p \in Procs :
          LET k == call[p].serp_key
              clash == Holders(table, k) \ {call[p].user_id} # {}
          IN /\ (pc[p] = "ssk_write" /\ pc'[p] # "ssk_write" /\ clash)
                    => (pc'[p] = "ssk_except" /\ table' = table)
             /\ (pc[p] = "ssk_except" /\ clash /\ pc'[p] = "idle")
                    => (ret'[p] = ReturnFlag(FALSE) /\ table' = table)
             /\ (pc[p] = "ssk_commit" => ~clash)]_vars

C2_Witness ==
    \E p \in Procs :
        /\ Done(p, "set_serp_key")
        /\ ret[p] = ReturnFlag(FALSE)
        /\ Holders(table, call[p].serp_key) \ {call[p].user_id} # {}
        /\ ~Exists(table[call[p].user_id])

\* C3: when set_serp_key calls of different users race for a key no one holds,
\* exactly one of them returns True, every other returns False, none raises, and
\* one user holds the key afterwards.
C3_OneWinner ==
    ((\A p \in Procs : Idle(p)) /\ Cardinality(Racers) >= 2) =>
        /\ \A p \in Racers : Returned(ret[p])
        /\ Cardinality({p \in Racers : ret[p].flag}) = 1
        /\ \A p \in Racers :
              Holders(table, call[p].serp_key) = {q \in Ids : \E r \in Racers :
                                                     ret[r].flag /\ call[r].user_id = q}

C3_Witness ==
    /\ \A p \in Procs : Idle(p)
    /\ Cardinality(Racers) >= 2
    /\ \E p \in Racers : ret[p] = ReturnFlag(FALSE)
    /\ \E p \in Racers : ret[p] = ReturnFlag(TRUE)

\* C4: set_serp_key(u, k) returns False only when k is held by a user other than
\* u; any other failure is raised.
C4_FalseOnlyOnKeyClash ==
    [][\A p \in Procs :
          (pc[p] = "ssk_except" /\ pc'[p] = "idle" /\ ret'[p] = ReturnFlag(FALSE))
              => Holders(table, call[p].serp_key) \ {call[p].user_id} # {}]_vars

\* C5: every get_user(id) call returns the one row of id, also when several calls
\* for an id without a row run at once; none fails on the row another one inserted.
C5_GetUserNeverFails ==
    \A p \in Procs :
        Done(p, "get_user") =>
            /\ Returned(ret[p])
            /\ ret[p].row.id = call[p].user_id
            /\ Exists(table[call[p].user_id])

\* C6 as stated: update_user on an id without a row raises a storage error and
\* leaves the table unchanged.
C6_MissingRowRaises ==
    [][\A p \in Procs :
          (Ends(p, "update_user") /\ ~Exists(table[call[p].user_id]))
              => (Raised(ret'[p]) /\ table' = table)]_vars

\* C6 as amended: update_user on an id without a row makes no row and leaves the
\* table unchanged, and it returns normally: the caller sees no error.
C6_MissingRowNoOp ==
    [][\A p \in Procs :
          (Ends(p, "update_user") /\ ~Exists(table[call[p].user_id]))
              => (ret'[p] = ReturnNone /\ table' = table)]_vars

C6_Witness ==
    \E p \in Procs :
        /\ Done(p, "update_user")
        /\ ~IsEmptyKwargs(call[p].kwargs)
        /\ ret[p] = ReturnNone
        /\ ~Exists(table[call[p].user_id])

\* C7: the custom_urls that get_user and get_all_users give back is a list for
\* every row, whatever update_user stored.
C7_UrlsAlwaysList ==
    /\ \A u \in Ids : Exists(table[u]) => Materialize(table[u]).custom_urls.t = "list"
    /\ \A i \in DOMAIN get_all_users_result(table) :
          get_all_users_result(table)[i].custom_urls.t = "list"
    /\ \A p \in Procs : Done(p, "get_user") /\ Returned(ret[p])
          => ret[p].row.custom_urls.t = "list"

\* C8: serp_key_exists(k, exclude_user = u) is true exactly when a row with an id
\* other than u holds k, for every u, 0 included; without exclude_user it is true
\* exactly when any row holds k.
C8_ExistsExcluding ==
    \A k \in Keys :
        /\ serp_key_exists_result(table, k, None) = (Holders(table, k) # {})
        /\ \A u \in Ids :
              serp_key_exists_result(table, k, Some(u)) = (Holders(table, k) \ {u} # {})

\* C9: an update_user that changes an existing row gives the supplied columns the
\* supplied values (custom_urls as read back), keeps every other column of the row
\* and every other row, and adds or removes no row; its other steps, and a call
\* that raises, change nothing.
C9_PartialUpdate ==
    [][\A p \in Procs :
          /\ (call'[p].op = "update_user" /\ pc'[p] # "idle") => table' = table
          /\ (Ends(p, "update_user") /\ pc[p] = "uu_raise") => table' = table
          /\ (Ends(p, "update_user") /\ pc[p] = "uu_commit" /\ Exists(table[call[p].user_id])) =>
                LET u == call[p].user_id
                    kw == call[p].kwargs
                    old == table[u]
                    new == table'[u]
                IN /\ \A v \in Ids \ {u} : table'[v] = table[v]
                   /\ Exists(new)
                   /\ new.id = old.id
                   /\ new.status = old.status
                   /\ new.plan_expiry = old.plan_expiry
                   /\ new.keys_redeemed = old.keys_redeemed
                   /\ new.credits = IF IsNone(kw.credits) THEN old.credits ELSE The(kw.credits)
                   /\ new.plan = IF IsNone(kw.plan) THEN old.plan ELSE The(kw.plan)
                   /\ new.serp_key = IF IsNone(kw.serp_key) THEN old.serp_key ELSE The(kw.serp_key)
                   /\ new.registered_at = IF IsNone(kw.registered_at) THEN old.registered_at
                                          ELSE The(kw.registered_at)
                   /\ IF IsNone(kw.custom_urls) THEN new.custom_urls = old.custom_urls
                      ELSE Materialize(new).custom_urls = The(kw.custom_urls)]_vars

C9_Witness ==
    \E p \in Procs :
        /\ Done(p, "update_user")
        /\ call[p].kwargs.custom_urls # None
        /\ call[p].kwargs.plan # None
        /\ Exists(table[call[p].user_id])
        /\ table[call[p].user_id].plan = "Pro"
        /\ table[call[p].user_id].credits = DEFAULT_FREE_CREDITS
        /\ table[call[p].user_id].serp_key # None

\* C10: once a row exists, no call changes its id or its registered_at.
C10_IdAndDateFixed ==
    [][\A u \in Ids :
          Exists(table[u]) =>
              /\ Exists(table'[u])
              /\ table'[u].id = table[u].id
              /\ table'[u].registered_at = table[u].registered_at]_vars

\* C11: with calls made one after the other, a set_serp_key(A, K) for a key K
\* (a non-empty string) that no other user holds returns True, whether A is new,
\* has no key or holds another key K1; afterwards get_serp_key(A) is K,
\* serp_key_exists(K) is true, A holds no other key and serp_key_exists(K1) is
\* false, so that a later set_serp_key(B, K1) meets a free key and succeeds too.
C11_Reassign ==
    [][\A p \in Procs :
          LET u == call[p].user_id
              k == call[p].serp_key
          IN (Ends(p, "set_serp_key") /\ TruthyStr(k) /\ Holders(table, k) \ {u} = {}) =>
                /\ ret'[p] = ReturnFlag(TRUE)
                /\ get_serp_key_result(table', u) = Some(k)
                /\ serp_key_exists_result(table', k, None)
                /\ \A k1 \in Keys \ {k} :
                      /\ u \notin Holders(table', k1)
                      /\ KeyOf(table[u]) = Some(k1) => ~serp_key_exists_result(table', k1, None)
                /\ \A v \in Ids \ {u} : table'[v] = table[v]]_vars

\* A holds K2, K1 is held by B through the call of set_serp_key(B, K1) that just
\* returned True, and three calls were made.
C11_Witness ==
    \E p \in Procs, a \in Ids :
        /\ Done(p, "set_serp_key")
        /\ ret[p] = ReturnFlag(TRUE)
        /\ call[p].serp_key = "K1"
        /\ call[p].user_id # a
        /\ Holders(table, "K1") = {call[p].user_id}
        /\ Holders(table, "K2") = {a}
        /\ calls = 3

\* C12: with calls made one after the other, delete_serp_key(A) called when A
\* has no row or no key (a non-empty string) returns False at once and leaves the table as it is, creating no row;
\* called when A holds a key it goes on to the UPDATE, and the call then returns
\* True, after which get_serp_key(A) is None, the key A held has no holder and no
\* other row has changed. A call right after a successful one therefore finds no
\* key and returns False.
C12_ClearKey ==
    [][\A p \in Procs :
          /\ Starts(p, "delete_serp_key") =>
                LET u == call'[p].user_id
                    holds == /\ Exists(table[u])
                             /\ KeyOf(table[u]) # None
                             /\ TruthyStr(The(KeyOf(table[u])))
                IN /\ table' = table
                   /\ holds => pc'[p] = "dsk_update" /\ ret'[p] = NoRet
                   /\ ~holds => pc'[p] = "idle" /\ ret'[p] = ReturnFlag(FALSE)
          /\ Ends(p, "delete_serp_key") =>
                LET u == call[p].user_id IN
                /\ ret'[p] = ReturnFlag(TRUE)
                /\ KeyOf(table[u]) # None
                /\ Exists(table'[u])
                /\ get_serp_key_result(table', u) = None
                /\ Holders(table', The(KeyOf(table[u]))) = {}
                /\ \A v \in Ids \ {u} : table'[v] = table[v]]_vars

\* A call of delete_serp_key has returned True for a user whose row stays, now
\* without a key, while another user still holds a key.
C12_Witness ==
    \E p \in Procs :
        /\ Done(p, "delete_serp_key")
        /\ ret[p] = ReturnFlag(TRUE)
        /\ Exists(table[call[p].user_id])
        /\ KeyOf(table[call[p].user_id]) = None
        /\ \E v \in Ids \ {call[p].user_id} : KeyOf(table[v]) # None

\* C13: a set_serp_key(A, K) whose SELECT found A's row, ending while A holds K
\* (any key, the empty string too), returns True and leaves the table exactly
\* as it was: the UPDATE to the key the row already has is no clash. The SELECT
\* itself changes nothing and finds the row of every user that has one.
C13_SetKeyIdempotent ==
    [][\A p \in Procs :
          /\ Starts(p, "set_serp_key") =>
                /\ table' = table
                /\ found'[p] = Exists(table[call'[p].user_id])
          /\ (/\ Ends(p, "set_serp_key")
              /\ found[p]
              /\ KeyOf(table[call[p].user_id]) = Some(call[p].serp_key)) =>
                /\ ret'[p] = ReturnFlag(TRUE)
                /\ table' = table]_vars

\* Two calls of set_serp_key(A, K) have both returned True: the later of them
\* ended with A already holding K, and A holds it still.
C13_Witness ==
    \E p, q \in Procs :
        /\ p # q
        /\ Done(p, "set_serp_key") /\ ret[p] = ReturnFlag(TRUE)
        /\ Done(q, "set_serp_key") /\ ret[q] = ReturnFlag(TRUE)
        /\ call[p].user_id = call[q].user_id
        /\ call[p].serp_key = call[q].serp_key
        /\ KeyOf(table[call[p].user_id]) = Some(call[p].serp_key)

\* rec is the record of user u as section 3 of the specification has it fresh:
\* the defaults, an empty list of URLs, a date of the clock, and the key given.
HasDefaults(rec, u, key) ==
    /\ rec.id = u
    /\ rec.credits = 200
    /\ rec.plan = "Free"
    /\ rec.status = "Free"
    /\ rec.plan_expiry = "N/A"
    /\ rec.keys_redeemed = 0
    /\ rec.custom_urls = PyList(<<>>)
    /\ rec.serp_key = key
    /\ \E d \in Days : rec.registered_at = strftime(d)

\* C14: a row appears in the table only by the commit of a get_user or of a
\* set_serp_key called for that id; the row get_user creates reads as credits 200,
\* plan "Free", status "Free", plan_expiry "N/A", keys_redeemed 0, custom_urls []
\* and no serp_key, the row set_serp_key creates reads the same with serp_key the
\* key of the call, which returns True; and get_user returns that record as long
\* as no other call has changed the row before its second SELECT.
C14_CreatedDefaults ==
    [][/\ \A u \in Ids :
            (~Exists(table[u]) /\ Exists(table'[u])) =>
               \E p \in Procs :
                  /\ call[p].user_id = u
                  /\ pc'[p] # pc[p]
                  /\ \/ /\ pc[p] = "gu_commit"
                        /\ HasDefaults(Materialize(table'[u]), u, None)
                     \/ /\ pc[p] = "ssk_commit"
                        /\ HasDefaults(Materialize(table'[u]), u, Some(call[p].serp_key))
                        /\ ret'[p] = ReturnFlag(TRUE)
       /\ \A p \in Procs :
            LET u == call[p].user_id IN
            (/\ Ends(p, "get_user")
             /\ pc[p] = "gu_reselect"
             /\ HasDefaults(Materialize(table[u]), u, None)) =>
               /\ Returned(ret'[p])
               /\ HasDefaults(ret'[p].row, u, None)]_vars

\* Both ways of creating a record have happened: get_user has returned the
\* record it created for one id, still as created, and the other id's row was
\* created by set_serp_key with key K2.
C14_Witness ==
    \E p \in Procs, v \in Ids :
        /\ Done(p, "get_user")
        /\ Returned(ret[p])
        /\ v # call[p].user_id
        /\ HasDefaults(ret[p].row, call[p].user_id, None)
        /\ HasDefaults(Materialize(table[call[p].user_id]), call[p].user_id, None)
        /\ HasDefaults(Materialize(table[v]), v, Some("K2"))

\* The operations that only read.
ReadOps == {"get_serp_key", "serp_key_exists", "get_user_count", "get_all_users"}

\* C15: a call of get_serp_key, serp_key_exists, get_user_count or get_all_users
\* is one step that returns a value, never raises, and leaves the table, the
\* write lock and every transaction in progress as they were, in every state it
\* is called in; get_serp_key of a user without a row, or without a key, returns
\* None, and serp_key_exists of a key no row holds returns False.
C15_ReadsChangeNothing ==
    [][\A p \in Procs : \A op \in ReadOps :
          Starts(p, op) =>
             LET c == call'[p] IN
             /\ table' = table
             /\ lock' = lock
             /\ pend' = pend
             /\ pc'[p] = "idle"
             /\ Returned(ret'[p])
             /\ (op = "get_serp_key" /\ KeyOf(table[c.user_id]) = None) =>
                   ret'[p] = ReturnKey(None)
             /\ (op = "serp_key_exists" /\ Holders(table, c.serp_key) = {}) =>
                   ret'[p] = ReturnFlag(FALSE)]_vars

\* get_serp_key has returned None for an id without a row and serp_key_exists
\* False for a key no row holds, in a table that has a row.
C15_Witness ==
    \E p, q \in Procs :
        /\ Done(p, "get_serp_key")
        /\ ret[p] = ReturnKey(None)
        /\ ~Exists(table[call[p].user_id])
        /\ Done(q, "serp_key_exists")
        /\ ret[q] = ReturnFlag(FALSE)
        /\ Holders(table, call[q].serp_key) = {}
        /\ \E v \in Ids : Exists(table[v])

\* The ids that have a row.
Created(tbl) == {v \in Ids : Exists(tbl[v])}

\* C16: in every reachable state get_user_count gives the number of ids that
\* have a row and get_all_users one summary for each of them, with its id; a row
\* once created stays under its id; the count grows, by one, exactly in the
\* commit of a get_user or set_serp_key that creates a row, and a set_serp_key
\* that fails leaves the table as it was.
C16_CountListConsistent ==
    /\ [](/\ get_user_count_result(table) = RowCount(table)
          /\ LET l == get_all_users_result(table) IN
             /\ Len(l) = RowCount(table)
             /\ {l[i].id : i \in 1..Len(l)} = Created(table))
    /\ [][/\ Created(table) \subseteq Created(table')
          /\ \A v \in Created(table') : table'[v].id = v
          /\ get_user_count_result(table') \in
                {get_user_count_result(table), get_user_count_result(table) + 1}
          /\ get_user_count_result(table') # get_user_count_result(table) =>
                \E p \in Procs : /\ pc[p] \in {"gu_commit", "ssk_commit"}
                                  /\ pc'[p] # pc[p]
                                  /\ Created(table') = Created(table) \cup {call[p].user_id}
          /\ \A p \in Procs :
                (Ends(p, "set_serp_key") /\ ret'[p] # ReturnFlag(TRUE)) => table' = table
          /\ \A p \in Procs :
                Starts(p, "get_user_count") => ret'[p] = ReturnCount(RowCount(table))]_vars

\* A set_serp_key for a new id has failed and left no row, and get_user_count
\* has returned 1, the number of rows there are.
C16_Witness ==
    \E p, q \in Procs :
        /\ Done(p, "set_serp_key")
        /\ ret[p] = ReturnFlag(FALSE)
        /\ ~Exists(table[call[p].user_id])
        /\ Done(q, "get_user_count")
        /\ ret[q] = ReturnCount(1)
        /\ RowCount(table) = 1

\* C17: with calls made one after the other, a get_user(id) made right after a
\* get_user(id) that returned a record returns at once the same record, field by
\* field (registered_at and custom_urls too), and leaves the table as the first
\* call left it: the row is there and nothing is inserted.
C17_GetUserTwice ==
    [][\A p \in Procs :
          (/\ Starts(p, "get_user")
           /\ call[p].op = "get_user"
           /\ call[p].user_id = call'[p].user_id
           /\ Returned(ret[p])) =>
             /\ pc'[p] = "idle"
             /\ ret'[p] = ret[p]
             /\ table' = table
             /\ Exists(table[call[p].user_id])
             /\ ret'[p].row = Materialize(table[call[p].user_id])]_vars

\* Two calls were made, the second a get_user, and the table holds nothing but
\* the row a get_user creates, which is the record returned.
C17_Witness ==
    \E p \in Procs :
        LET u == call[p].user_id IN
        /\ calls = 2
        /\ Done(p, "get_user")
        /\ Created(table) = {u}
        /\ HasDefaults(Materialize(table[u]), u, None)
        /\ ret[p] = ReturnRow(Materialize(table[u]))

\* C18: under fair scheduling every call a caller has started ends, with a
\* value returned or an exception raised; and a caller that is in no call holds
\* no write lock and has no uncommitted row, whether its last call returned or
\* raised, so what a finished call wrote is either committed or gone.
C18_CallsEndAndRelease ==
    /\ \A p \in Procs : (~Idle(p)) ~> Idle(p)
    /\ [](\A p \in Procs : Idle(p) => (lock # p /\ pend[p] = NoRow /\ exc[p] = NoExc))
    /\ [][\A p \in Procs :
            (~Idle(p) /\ pc'[p] = "idle") => (Returned(ret'[p]) \/ Raised(ret'[p]))]_vars

\* Two overlapping calls have ended, one with a record returned and one with an
\* exception raised after its INSERT failed, and the write lock is free.
C18_Witness ==
    \E p, q \in Procs :
        /\ Done(p, "get_user") /\ Raised(ret[p])
        /\ Done(q, "get_user") /\ Returned(ret[q])
        /\ lock = 0
        /\ pend[p] = NoRow /\ pend[q] = NoRow

\* C19: in every reachable state, for every key k set_serp_key accepts, the
\* empty string included, serp_key_exists(k) is true exactly when some user u
\* has get_serp_key(u) = k.
C19_KeyViewsAgree ==
    \A k \in Keys :
        serp_key_exists_result(table, k, None)
            = (\E u \in Ids : get_serp_key_result(table, u) = Some(k))

====
